---- MODULE Spec2Model ----
(***************************************************************************)
(* Model of src/main.py: the text-analysis script (translation, sentiment, *)
(* lexical counters, language detector, Flesch readability index and its   *)
(* difficulty label, and the report printed by the __main__ block).        *)
(*                                                                         *)
(* Representation.                                                         *)
(*  - A text is a sequence of Unicode code points, so ord(c) is c itself.  *)
(*  - Floats are exact rationals.  A polarity or subjectivity p is the     *)
(*    integer p * 100000; a readability index is a pair num/den with       *)
(*    den > 0 and value num / (1000 * den).                                *)
(*  - The Russian display strings are named by English tags (POSITIVE,     *)
(*    VERY_EASY, ...); a function that falls off its end returns "None".   *)
(***************************************************************************)
EXTENDS Integers, Sequences, FiniteSets

\* ------------------------------------------------------------------ bounds
MaxLen == 3

\* --------------------------------------------------------------- alphabet
\* Characters the input texts are drawn from: TAB, ' ', '.', '?', 'A', 'a',
\* U+01F4 (code point 500), U+01F5 (501) and Cyrillic 'i' (1080)
Chars == {9, 32, 46, 63, 65, 97, 500, 501, 1080}

\* str.isspace() code points below 1200 (what str.split() splits on)
Whitespace == {9, 10, 11, 12, 13, 28, 29, 30, 31, 32, 133, 160}

\* '.', '?', '!' counted by count_sentences
Terminators == {46, 63, 33}

\* vowels = 'aeiouy' + the ten Cyrillic vowels, as code points
vowels == {97, 101, 105, 111, 117, 121,
           1072, 1086, 1091, 1099, 1101, 1080, 1105, 1077, 1103, 1102}

\* str.lower() on one code point (Latin, basic Cyrillic, and U+01F4)
lower(c) ==
  IF c \in 65..90 THEN c + 32
  ELSE IF c \in 1040..1071 THEN c + 32
  ELSE IF c = 1025 THEN 1105
  ELSE IF c = 500 THEN 501
  ELSE c

\* ------------------------------------------------------------ input texts
RECURSIVE SeqsUpTo(_)
SeqsUpTo(n) ==
  IF n = 0 THEN {<<>>}
  ELSE LET shorter == SeqsUpTo(n - 1)
       IN shorter \cup {Append(s, c) : s \in {t \in shorter : Len(t) = n - 1}, c \in Chars}

\* 13 x "aaa. " + 15 x "aa. " + 152 x "aa " : 180 words, 28 '.', 373 vowels
BoundaryText ==
  [i \in 1..581 |->
     IF i <= 65
       THEN (IF (i - 1) % 5 < 3 THEN 97 ELSE IF (i - 1) % 5 = 3 THEN 46 ELSE 32)
     ELSE IF i <= 125
       THEN (IF (i - 66) % 4 < 2 THEN 97 ELSE IF (i - 66) % 4 = 2 THEN 46 ELSE 32)
     ELSE (IF (i - 126) % 3 < 2 THEN 97 ELSE 32)]

Texts == SeqsUpTo(MaxLen) \cup {BoundaryText}

\* ------------------------------------------------------- lexical counters
\* text.count(ch)
count(text, ch) == Cardinality({i \in DOMAIN text : text[i] = ch})

\* variant: len(text.split(' ')), which keeps the empty pieces
count_words_single_space(text) == count(text, 32) + 1

\* len(text.split()): a word starts at each non-whitespace character that
\* is first or follows a whitespace character
count_words(text) ==
  Cardinality({i \in DOMAIN text :
                 /\ text[i] \notin Whitespace
                 /\ (i = 1 \/ text[i - 1] \in Whitespace)})

count_vowels(text) ==
  Cardinality({i \in DOMAIN text : lower(text[i]) \in vowels})

\* variant: the terminator count without the floor of 1
count_sentences_nofloor(text) ==
  count(text, 46) + count(text, 63) + count(text, 33)

count_sentences(text) ==
  LET cnt == count(text, 46) + count(text, 63) + count(text, 33)
  IN IF cnt > 0 THEN cnt ELSE 1

\* ------------------------------------------------------ language detector
\* text.replace(' ', '')
RemoveSpaces(text) == SelectSeq(text, LAMBDA c : c # 32)

RECURSIVE SumSet(_, _)
SumSet(S, text) ==
  IF S = {} THEN 0
  ELSE LET c == CHOOSE x \in S : TRUE
       IN c * count(text, c) + SumSet(S \ {c}, text)

\* sum(ord(letter) for letter in no_space)
SumOrd(text) == SumSet({text[i] : i \in DOMAIN text}, text)

\* variant: true division '/' in place of floor division '//'
detect_language_truediv(text) ==
  LET no_space == RemoveSpaces(text)
  IN IF Len(no_space) = 0 THEN "UNKNOWN"
     ELSE IF SumOrd(no_space) > 500 * Len(no_space) THEN "RU"
     ELSE "ENG"

detect_language(text) ==
  LET no_space == RemoveSpaces(text)
  IN IF Len(no_space) = 0 THEN "UNKNOWN"
     ELSE IF SumOrd(no_space) \div Len(no_space) > 500 THEN "RU"
     ELSE "ENG"

\* ------------------------------------------------------ readability index
\* The result of fre_index: err is TRUE when a division by zero was raised,
\* divisions counts the '/' evaluated, coefs names the coefficient pair
\* used ("RU": 1.52 and 65.14, "nonRU": 1.015 and 84.6), and the value is
\* num / (1000 * den).
FreZero == [err |-> FALSE, divisions |-> 0, coefs |-> "none", num |-> 0, den |-> 1]
FreRaise(n) == [err |-> TRUE, divisions |-> n, coefs |-> "none", num |-> 0, den |-> 1]

\* variant: the zero-word guard is missing
fre_index_noguard(text) ==
  LET w == count_words(text)
      s == count_sentences(text)
      v == count_vowels(text)
  IN IF s = 0 THEN FreRaise(1)
     ELSE IF w = 0 THEN FreRaise(2)
     ELSE IF detect_language(text) = "RU"
       THEN [err |-> FALSE, divisions |-> 2, coefs |-> "RU",
             num |-> 206835 * w * s - 1520 * w * w - 65140 * v * s, den |-> w * s]
       ELSE [err |-> FALSE, divisions |-> 2, coefs |-> "nonRU",
             num |-> 206835 * w * s - 1015 * w * w - 84600 * v * s, den |-> w * s]

fre_index(text) ==
  LET w == count_words(text)
      s == count_sentences(text)
      v == count_vowels(text)
  IN IF w = 0 THEN FreZero
     ELSE IF s = 0 THEN FreRaise(1)
     ELSE IF w = 0 THEN FreRaise(2)
     ELSE IF detect_language(text) = "RU"
       THEN [err |-> FALSE, divisions |-> 2, coefs |-> "RU",
             num |-> 206835 * w * s - 1520 * w * w - 65140 * v * s, den |-> w * s]
       ELSE [err |-> FALSE, divisions |-> 2, coefs |-> "nonRU",
             num |-> 206835 * w * s - 1015 * w * w - 84600 * v * s, den |-> w * s]

\* index > t and index < t on the exact value
FreGt(f, t) == f.num > t * 1000 * f.den
FreLt(f, t) == f.num < t * 1000 * f.den

reading_difficulty(text) ==
  LET f == fre_index(text)
  IN IF f.err THEN "ZeroDivisionError"
     ELSE IF FreGt(f, 80) THEN "VERY_EASY"
     ELSE IF FreGt(f, 50) THEN "EASY"
     ELSE IF FreGt(f, 25) THEN "HARD"
     ELSE IF FreLt(f, 25) THEN "VERY_HARD"
     ELSE "None"

\* ------------------------------------------------------------- sentiment
\* Values the sentiment collaborator returns, in units of 1/100000
Polarities == {-10001, -10000, 0, 10000, 10001}
Subjectivities == {0, 30000}

\* variant: non-strict comparisons
SentimentResult_ge(polarity, subjectivity) ==
  [sentiment |-> IF polarity >= 10000 THEN "POSITIVE"
                 ELSE IF polarity <= -10000 THEN "NEGATIVE"
                 ELSE "NEUTRAL",
   polarity |-> polarity,
   subjectivity |-> subjectivity,
   objectivity_percent |-> (100000 - subjectivity) * 100,
   subjectivity_percent |-> subjectivity * 100]

\* the mapping of analyze_sentiment after TextBlob has scored the text
SentimentResult(polarity, subjectivity) ==
  [sentiment |-> IF polarity > 10000 THEN "POSITIVE"
                 ELSE IF polarity < -10000 THEN "NEGATIVE"
                 ELSE "NEUTRAL",
   polarity |-> polarity,
   subjectivity |-> subjectivity,
   objectivity_percent |-> (100000 - subjectivity) * 100,
   subjectivity_percent |-> subjectivity * 100]

\* ---------------------------------------------------------------- report
NoResults == [sentiment |-> "None", polarity |-> 0, subjectivity |-> 0,
              objectivity_percent |-> 0, subjectivity_percent |-> 0]

\* variant: the vowel count is printed before the word count
ReportLine_swapped(i, t, r) ==
  IF i = 1 THEN [field |-> "sentiment", value |-> r.sentiment]
  ELSE IF i = 2 THEN [field |-> "polarity", value |-> r.polarity]
  ELSE IF i = 3 THEN [field |-> "objectivity_percent", value |-> r.objectivity_percent]
  ELSE IF i = 4 THEN [field |-> "vowel_count", value |-> count_vowels(t)]
  ELSE IF i = 5 THEN [field |-> "word_count", value |-> count_words(t)]
  ELSE IF i = 6 THEN [field |-> "sentence_count", value |-> count_sentences(t)]
  ELSE IF i = 7 THEN [field |-> "language", value |-> detect_language(t)]
  ELSE IF i = 8 THEN [field |-> "fre_index", value |-> fre_index(t)]
  ELSE [field |-> "reading_difficulty", value |-> reading_difficulty(t)]

\* the i-th print statement of the __main__ block
ReportLine(i, t, r) ==
  IF i = 1 THEN [field |-> "sentiment", value |-> r.sentiment]
  ELSE IF i = 2 THEN [field |-> "polarity", value |-> r.polarity]
  ELSE IF i = 3 THEN [field |-> "objectivity_percent", value |-> r.objectivity_percent]
  ELSE IF i = 4 THEN [field |-> "word_count", value |-> count_words(t)]
  ELSE IF i = 5 THEN [field |-> "vowel_count", value |-> count_vowels(t)]
  ELSE IF i = 6 THEN [field |-> "sentence_count", value |-> count_sentences(t)]
  ELSE IF i = 7 THEN [field |-> "language", value |-> detect_language(t)]
  ELSE IF i = 8 THEN [field |-> "fre_index", value |-> fre_index(t)]
  ELSE [field |-> "reading_difficulty", value |-> reading_difficulty(t)]

\* ------------------------------------------------------------ the program
VARIABLES pc, text, english_text, results, out, error, calls

vars == <<pc, text, english_text, results, out, error, calls>>

Init ==
  /\ pc = "input"
  /\ text = <<>>
  /\ english_text = <<>>
  /\ results = NoResults
  /\ out = <<>>
  /\ error = "none"
  /\ calls = <<>>

\* text = input(...)
ReadInput ==
  /\ pc = "input"
  /\ \E t \in Texts : text' = t
  /\ pc' = "translate"
  /\ UNCHANGED <<english_text, results, out, error, calls>>

\* translate_text returns the collaborator's string
TranslateReturn ==
  /\ pc = "translate"
  /\ \E e \in {text, <<97>>} : english_text' = e
  /\ calls' = Append(calls, "translate")
  /\ pc' = "score"
  /\ UNCHANGED <<text, results, out, error>>

\* translator.translate raises; nothing catches it
TranslateRaise ==
  /\ pc = "translate"
  /\ error' = "translate"
  /\ pc' = "crashed"
  /\ UNCHANGED <<text, english_text, results, out, calls>>

\* TextBlob scores english_text; analyze_sentiment returns its dict
SentimentReturn ==
  /\ pc = "score"
  /\ \E p \in Polarities, s \in Subjectivities : results' = SentimentResult(p, s)
  /\ english_text' = <<>>
  /\ calls' = Append(calls, "sentiment")
  /\ pc' = "print"
  /\ UNCHANGED <<text, out, error>>

\* TextBlob raises; nothing catches it
SentimentRaise ==
  /\ pc = "score"
  /\ error' = "sentiment"
  /\ english_text' = <<>>
  /\ pc' = "crashed"
  /\ UNCHANGED <<text, results, out, calls>>

\* the next of the nine print statements
PrintLine ==
  /\ pc = "print"
  /\ out' = Append(out, ReportLine(Len(out) + 1, text, results))
  /\ pc' = IF Len(out) + 1 = 9 THEN "done" ELSE "print"
  /\ UNCHANGED <<text, english_text, results, error, calls>>

Next ==
  \/ ReadInput
  \/ TranslateReturn
  \/ TranslateRaise
  \/ SentimentReturn
  \/ SentimentRaise
  \/ PrintLine

Spec == Init /\ [][Next]_vars

\* ================================================================ claims
\* Claims about the pure functions are stated in the state right after the
\* text has been read (pc = "translate"), where text ranges over Texts.
Blank(t) == \A i \in DOMAIN t : t[i] \in Whitespace

\* The split-and-trim sentence count of the specification: the number of
\* maximal terminator-free pieces that hold a non-whitespace character,
\* counted at the first such character of each piece.
SplitCount(t) ==
  Cardinality({i \in DOMAIN t :
                 /\ t[i] \notin Terminators
                 /\ t[i] \notin Whitespace
                 /\ \A j \in 1..(i - 1) :
                      (t[j] \notin Whitespace /\ \A k \in (j + 1)..(i - 1) : t[k] \in Whitespace)
                        => t[j] \in Terminators})

\* C1: for every text, count_sentences(text) is the number of non-empty
\* trimmed pieces left by splitting on runs of terminators.
C1_SplitAndTrim ==
  pc = "translate" => count_sentences(text) = SplitCount(text)

\* C2: for every empty or whitespace-only text the three counters return 0
\* and detect_language returns UNKNOWN.
C2_BlankAllZero ==
  (pc = "translate" /\ Blank(text)) =>
     /\ count_words(text) = 0
     /\ count_vowels(text) = 0
     /\ count_sentences(text) = 0
     /\ detect_language(text) = "UNKNOWN"

\* the exhaustive ladder of the claim
Ladder(f) ==
  IF FreGt(f, 80) THEN "VERY_EASY"
  ELSE IF FreGt(f, 50) THEN "EASY"
  ELSE IF FreGt(f, 25) THEN "HARD"
  ELSE "VERY_HARD"

\* C3: reading_difficulty gives every index exactly one of the four labels
\* by the top-down ladder, index <= 25 (25 included) being VERY_HARD, and
\* never returns no label.
C3_LadderExhaustive ==
  pc = "translate" => reading_difficulty(text) = Ladder(fre_index(text))

\* C4: the sentiment label is POSITIVE exactly when polarity > 0.1,
\* NEGATIVE exactly when polarity < -0.1 and NEUTRAL otherwise; 0.1 and -0.1
\* are NEUTRAL.
C4_SentimentThresholds ==
  pc \in {"print", "done"} =>
     LET p == results.polarity
         l == results.sentiment
     IN /\ l \in {"POSITIVE", "NEGATIVE", "NEUTRAL"}
        /\ (l = "POSITIVE") <=> (p >= 10001)
        /\ (l = "NEGATIVE") <=> (p <= -10001)
        /\ (p = 10000 \/ p = -10000) => l = "NEUTRAL"

C4_Witness ==
  /\ pc = "done"
  /\ results.polarity = 10000
  /\ out[1].value = "NEUTRAL"

\* C5: for every text with no words fre_index returns 0 and evaluates
\* neither division.
C5_ZeroWordsZeroIndex ==
  (pc = "translate" /\ count_words(text) = 0) =>
     LET f == fre_index(text)
     IN ~f.err /\ f.num = 0 /\ f.divisions = 0

C5_Witness ==
  /\ pc = "done"
  /\ Len(text) > 0
  /\ count_words(text) = 0
  /\ out[8].value.num = 0
  /\ out[8].value.divisions = 0

\* C6: detect_language returns UNKNOWN exactly when nothing but spaces is in
\* the text, otherwise RU exactly when the floor of the average code point
\* of the non-space characters exceeds 500, otherwise ENG (an average of
\* exactly 500 is ENG).
C6_DetectLanguage ==
  pc = "translate" =>
     LET n == Len(text) - count(text, 32)
         total == SumOrd(text) - 32 * count(text, 32)
         l == detect_language(text)
     IN /\ l \in {"UNKNOWN", "RU", "ENG"}
        /\ (l = "UNKNOWN") <=> (\A i \in DOMAIN text : text[i] = 32)
        /\ (l = "RU") <=> (n > 0 /\ total >= 501 * n)
        /\ (n > 0 /\ total = 500 * n) => l = "ENG"

C6_Witness ==
  /\ pc = "done"
  /\ Len(text) - count(text, 32) = 2
  /\ SumOrd(text) - 32 * count(text, 32) = 1001
  /\ out[7].value = "ENG"

\* C7: no text has words but zero sentences, so fre_index never divides by
\* zero and returns a number for every text.
C7_NoZeroSentenceDivision ==
  pc = "translate" =>
     /\ ~(count_words(text) > 0 /\ count_sentences(text) = 0)
     /\ ~fre_index(text).err

C7_Witness ==
  /\ pc = "done"
  /\ Len(text) = 3
  /\ \A i \in DOMAIN text : text[i] \in Terminators
  /\ ~out[8].value.err
  /\ out[8].value.divisions = 2

ReportOrder ==
  <<"sentiment", "polarity", "objectivity_percent", "word_count", "vowel_count",
    "sentence_count", "language", "fre_index", "reading_difficulty">>

\* C8: the report lines come one metric per line in the fixed order, and
\* the first line is emitted only after the translation call and the
\* sentiment scoring have both returned.
C8_ReportOrder ==
  /\ Len(out) <= 9
  /\ \A i \in 1..Len(out) : out[i].field = ReportOrder[i]
  /\ Len(out) > 0 => calls = <<"translate", "sentiment">>
  /\ pc = "done" => Len(out) = 9

C8_Witness ==
  /\ pc = "done"
  /\ Len(out) = 9
  /\ out[9].field = "reading_difficulty"

\* C9: when the translation call or the sentiment scoring fails, the run
\* ends in a distinct failure outcome (TranslationUnavailable for the
\* translation) rather than crashing, with no report line and no defaulted
\* sentiment value.
C9_DistinctFailure ==
  /\ error = "translate" => pc = "TranslationUnavailable"
  /\ error = "sentiment" => pc = "SentimentUnavailable"
  /\ error # "none" => (out = <<>> /\ results = NoResults)

\* C10: a text with words is detected RU or ENG, never UNKNOWN, so the
\* non-RU coefficients are applied only to text detected as ENG; a text of
\* tabs only has no words and yet is not UNKNOWN.
C10_WordsImplyLanguage ==
  pc = "translate" =>
     /\ count_words(text) > 0 => detect_language(text) \in {"RU", "ENG"}
     /\ fre_index(text).coefs = "nonRU" => detect_language(text) = "ENG"
     /\ (Len(text) > 0 /\ \A i \in DOMAIN text : text[i] = 9) =>
          (count_words(text) = 0 /\ detect_language(text) # "UNKNOWN")

C10_Witness ==
  /\ pc = "done"
  /\ Len(text) > 0
  /\ \A i \in DOMAIN text : text[i] = 9
  /\ out[4].value = 0
  /\ out[7].value = "ENG"

====
